---- MODULE Spec2Model ----
(***************************************************************************)
(* Detection ledger of the ALPR repository: ALPRDatabase.log_detection and *)
(* ALPRDatabase.get_plate_history (src/database.py), called by one or more *)
(* producers against one SQLite store and one image directory.             *)
(*                                                                         *)
(* Time is counted in ticks of 1/TicksPerSec second.  A datetime is the    *)
(* number of ticks since the start of the run; strftime splits it into a   *)
(* (seconds, microseconds) text and strptime reads such a text back.       *)
(***************************************************************************)
EXTENDS Integers, Sequences, FiniteSets, TLC

\* ---------------------------------------------------------------- bounds
TicksPerSec == 2
MaxClock == 11
MaxRows == 2
MaxFiles == 2
MaxTable == 3
MaxStamp == 2
MaxLen == 3

\* ------------------------------------------------------- program constants
Window == 5            \* "if time_diff < 5" (seconds)

Procs == {"cam1", "cam2"}

\* Characters and the raw texts a producer hands to log_detection.
Space == {" "}
Texts == {<<"A">>, <<" ", "a">>, <<"b">>, <<" ">>}
\* Confidences in units of 10^-5.
Confs == {12346}

None == <<>>

\* No get_plate_history result is waiting for its caller.
NoResult == <<"NoResult">>

VARIABLES clock, rows, files, dirExists, pc, plate_text, confidence,
          last_entry, now, outcome, history, raw_text

vars == <<clock, rows, files, dirExists, pc, plate_text, confidence,
          last_entry, now, outcome, history, raw_text>>

\* ------------------------------------------------------------ str methods
UpperChar(c) == IF c = "a" THEN "A" ELSE IF c = "b" THEN "B" ELSE c

\* str.upper()
Upper(s) == [i \in 1..Len(s) |-> UpperChar(s[i])]

\* lstrip that drops one leading blank only.
LStripOne(s) == IF s # <<>> /\ Head(s) \in Space THEN Tail(s) ELSE s

RECURSIVE LStrip(_)
LStrip(s) == IF s # <<>> /\ Head(s) \in Space THEN LStrip(Tail(s)) ELSE s

RECURSIVE RStrip(_)
RStrip(s) ==
    IF s # <<>> /\ s[Len(s)] \in Space THEN RStrip(SubSeq(s, 1, Len(s) - 1)) ELSE s

\* str.strip()
Strip(s) == RStrip(LStrip(s))

\* plate_text.upper().strip()
Normalize(s) == Strip(Upper(s))

\* ------------------------------------------------------- datetime methods
MicrosPerTick == 1000000 \div TicksPerSec

\* now.strftime("%Y-%m-%d %H:%M:%S.%f")
Strftime(t) == <<t \div TicksPerSec, (t % TicksPerSec) * MicrosPerTick>>

\* datetime.datetime.strptime(s, "%Y-%m-%d %H:%M:%S.%f")
Strptime(s) == s[1] * TicksPerSec + (s[2] \div MicrosPerTick)

\* f"plate_{now.strftime('%Y%m%d_%H%M%S_%f')}.jpg"
ImgFilename(t) == <<"plate", t \div TicksPerSec, (t % TicksPerSec) * MicrosPerTick, "jpg">>

\* round(confidence, 4), in units of 10^-4
Round4(c) == (c + 5) \div 10

\* ------------------------------------------------------------ the store
\* The lookup with ORDER BY timestamp DESC: the key's newest row by time.
SelectLastByTimestamp(table, key) ==
    LET ids == {i \in 1..Len(table) : table[i].plate_text = key}
    IN IF ids = {} THEN <<>>
       ELSE LET m == CHOOSE i \in ids :
                        \A j \in ids :
                           \/ table[j].timestamp[1] < table[i].timestamp[1]
                           \/ /\ table[j].timestamp[1] = table[i].timestamp[1]
                              /\ table[j].timestamp[2] <= table[i].timestamp[2]
            IN <<table[m].timestamp>>

\* The lookup without its WHERE clause: the latest row of any key.
SelectLastAnyKey(table, key) ==
    IF table = <<>> THEN <<>> ELSE <<table[Len(table)].timestamp>>

\* SELECT timestamp FROM detections WHERE plate_text = ? ORDER BY id DESC LIMIT 1
SelectLast(table, key) ==
    LET ids == {i \in 1..Len(table) : table[i].plate_text = key}
    IN IF ids = {} THEN None
       ELSE LET m == CHOOSE i \in ids : \A j \in ids : table[j].id <= table[i].id
            IN <<table[m].timestamp>>

\* INSERT INTO detections (timestamp, plate_text, confidence, image_path)
InsertRow(table, ts, key, conf, path) ==
    Append(table, [id |-> Len(table) + 1, timestamp |-> ts, plate_text |-> key,
                   confidence |-> conf, image_path |-> path])

\* Comparison of two stored timestamps as SQLite compares them: as texts of
\* one fixed layout, field by field from the left.
TextLeq(a, b) == a[1] < b[1] \/ (a[1] = b[1] /\ a[2] <= b[2])

\* The history query with ORDER BY timestamp ASC.
SelectHistoryAscending(table, key) ==
    LET ids == {i \in 1..Len(table) : table[i].plate_text = key}
        n == Cardinality(ids)
        orders == {f \in [1..n -> ids] :
                     /\ \A k, l \in 1..n : k # l => f[k] # f[l]
                     /\ \A k, l \in 1..n :
                          k < l => TextLeq(table[f[k]].timestamp, table[f[l]].timestamp)}
    IN {[k \in 1..n |-> <<table[f[k]].timestamp, table[f[k]].confidence>>] : f \in orders}

\* SELECT timestamp, confidence FROM detections WHERE plate_text = ?
\* ORDER BY timestamp DESC: every order of the key's rows that is descending
\* in the timestamp; rows with equal timestamps come in either order.
SelectHistory(table, key) ==
    LET ids == {i \in 1..Len(table) : table[i].plate_text = key}
        n == Cardinality(ids)
        orders == {f \in [1..n -> ids] :
                     /\ \A k, l \in 1..n : k # l => f[k] # f[l]
                     /\ \A k, l \in 1..n :
                          k < l => TextLeq(table[f[l]].timestamp, table[f[k]].timestamp)}
    IN {[k \in 1..n |-> <<table[f[k]].timestamp, table[f[k]].confidence>>] : f \in orders}

InFlight == {q \in Procs : pc[q] # "idle"}

Init ==
    /\ clock = 0
    /\ rows = <<>>
    /\ files = {}
    /\ dirExists = FALSE
    /\ pc = [p \in Procs |-> "idle"]
    /\ plate_text = [p \in Procs |-> <<>>]
    /\ confidence = [p \in Procs |-> 0]
    /\ last_entry = [p \in Procs |-> None]
    /\ now = [p \in Procs |-> 0]
    /\ outcome = [p \in Procs |-> <<"NotCalled">>]
    /\ history = NoResult
    /\ raw_text = [p \in Procs |-> <<>>]

\* The wall clock advances.
Tick ==
    /\ clock < MaxClock
    /\ clock' = clock + 1
    /\ UNCHANGED <<history, raw_text, rows, files, dirExists, pc, plate_text, confidence,
                   last_entry, now, outcome>>

\* Leaving log_detection: the frame's locals are gone, the outcome is what
\* the caller observes (the diagnostic printed before "return", or the
\* exception that propagated out of the call).
Return(p, out) ==
    /\ pc' = [pc EXCEPT ![p] = "idle"]
    /\ plate_text' = [plate_text EXCEPT ![p] = <<>>]
    /\ confidence' = [confidence EXCEPT ![p] = 0]
    /\ last_entry' = [last_entry EXCEPT ![p] = None]
    /\ now' = [now EXCEPT ![p] = 0]
    /\ outcome' = [outcome EXCEPT ![p] = out]

\* log_detection(plate_text, confidence, frame_crop) is entered; line 59.
Call(p, text, conf) ==
    /\ pc[p] = "idle"
    /\ Len(rows) + Cardinality(InFlight) < MaxRows
    /\ Cardinality(files) + Cardinality(InFlight) < MaxFiles
    /\ pc' = [pc EXCEPT ![p] = "lookup"]
    /\ plate_text' = [plate_text EXCEPT ![p] = Normalize(text)]
    /\ confidence' = [confidence EXCEPT ![p] = conf]
    /\ outcome' = [outcome EXCEPT ![p] = <<"Running">>]
    /\ UNCHANGED <<history, raw_text, clock, rows, files, dirExists, last_entry, now>>

\* Lines 63-70: the dedup lookup, one read of the store.
Lookup(p) ==
    /\ pc[p] = "lookup"
    /\ last_entry' = [last_entry EXCEPT ![p] = SelectLast(rows, plate_text[p])]
    /\ pc' = [pc EXCEPT ![p] = "check"]
    /\ UNCHANGED <<history, raw_text, clock, rows, files, dirExists, plate_text, confidence, now, outcome>>

\* Lines 63-70 when sqlite3 raises (store unavailable): no handler encloses
\* the lookup, the exception leaves log_detection.
LookupError(p) ==
    /\ pc[p] = "lookup"
    /\ Return(p, <<"Exception", "sqlite3.Error">>)
    /\ UNCHANGED <<history, raw_text, clock, rows, files, dirExists>>

\* The window check with "<=" for "<": a sighting exactly 5 s old is dropped.
CheckInclusive(p) ==
    /\ pc[p] = "check"
    /\ LET suppressed ==
             /\ last_entry[p] # None
             /\ clock - Strptime(last_entry[p][1]) <= Window * TicksPerSec
       IN IF suppressed
          THEN Return(p, <<"Skipped", clock - Strptime(last_entry[p][1])>>)
          ELSE /\ pc' = [pc EXCEPT ![p] = "exists"]
               /\ UNCHANGED <<plate_text, confidence, last_entry, now, outcome>>
    /\ UNCHANGED <<history, raw_text, clock, rows, files, dirExists>>

\* The window check comparing the raw clock difference, not its seconds,
\* with the window.
CheckRawDifference(p) ==
    /\ pc[p] = "check"
    /\ LET suppressed ==
             /\ last_entry[p] # None
             /\ clock - Strptime(last_entry[p][1]) < Window
       IN IF suppressed
          THEN Return(p, <<"Skipped", clock - Strptime(last_entry[p][1])>>)
          ELSE /\ pc' = [pc EXCEPT ![p] = "exists"]
               /\ UNCHANGED <<plate_text, confidence, last_entry, now, outcome>>
    /\ UNCHANGED <<history, raw_text, clock, rows, files, dirExists>>

\* A window check that moves the key's last sighting to now when it
\* suppresses (a sliding window).
CheckExtendsWindow(p) ==
    /\ pc[p] = "check"
    /\ LET suppressed ==
             /\ last_entry[p] # None
             /\ clock - Strptime(last_entry[p][1]) < Window * TicksPerSec
           ids == {i \in 1..Len(rows) : rows[i].plate_text = plate_text[p]}
       IN IF suppressed
          THEN /\ Return(p, <<"Skipped", clock - Strptime(last_entry[p][1])>>)
               /\ rows' = [i \in 1..Len(rows) |->
                             IF i \in ids /\ (\A j \in ids : j <= i)
                             THEN [rows[i] EXCEPT !.timestamp = Strftime(clock)]
                             ELSE rows[i]]
          ELSE /\ pc' = [pc EXCEPT ![p] = "exists"]
               /\ UNCHANGED <<rows, plate_text, confidence, last_entry, now, outcome>>
    /\ UNCHANGED <<history, raw_text, clock, files, dirExists>>

\* The window check made against the store as it is now, as it would be if
\* lookup, check and insert ran under one lock.
CheckLocked(p) ==
    /\ pc[p] = "check"
    /\ LET fresh == SelectLast(rows, plate_text[p])
           suppressed ==
             /\ fresh # None
             /\ clock - Strptime(fresh[1]) < Window * TicksPerSec
       IN IF suppressed
          THEN Return(p, <<"Skipped", clock - Strptime(fresh[1])>>)
          ELSE /\ pc' = [pc EXCEPT ![p] = "exists"]
               /\ UNCHANGED <<plate_text, confidence, last_entry, now, outcome>>
    /\ UNCHANGED <<history, raw_text, clock, rows, files, dirExists>>

\* The window check of a pipeline that saves the crop before it decides.
CheckSavesCrop(p) ==
    /\ pc[p] = "check"
    /\ files' = files \cup {ImgFilename(clock)}
    /\ LET suppressed ==
             /\ last_entry[p] # None
             /\ clock - Strptime(last_entry[p][1]) < Window * TicksPerSec
       IN IF suppressed
          THEN Return(p, <<"Skipped", clock - Strptime(last_entry[p][1])>>)
          ELSE /\ pc' = [pc EXCEPT ![p] = "exists"]
               /\ UNCHANGED <<plate_text, confidence, last_entry, now, outcome>>
    /\ UNCHANGED <<history, raw_text, clock, rows, dirExists>>

\* Lines 72-81: the window check against the row found by the lookup.
Check(p) ==
    /\ pc[p] = "check"
    /\ LET suppressed ==
             /\ last_entry[p] # None
             /\ clock - Strptime(last_entry[p][1]) < Window * TicksPerSec
       IN IF suppressed
          THEN Return(p, <<"Skipped", clock - Strptime(last_entry[p][1])>>)
          ELSE /\ pc' = [pc EXCEPT ![p] = "exists"]
               /\ UNCHANGED <<plate_text, confidence, last_entry, now, outcome>>
    /\ UNCHANGED <<history, raw_text, clock, rows, files, dirExists>>

\* Line 84: os.path.exists(self.img_dir)
Exists(p) ==
    /\ pc[p] = "exists"
    /\ pc' = [pc EXCEPT ![p] = IF dirExists THEN "stamp" ELSE "makedirs"]
    /\ UNCHANGED <<history, raw_text, clock, rows, files, dirExists, plate_text, confidence,
                   last_entry, now, outcome>>

\* Line 85: os.makedirs(self.img_dir) creates the directory, or raises
\* FileExistsError when it exists by now, or another OSError; no handler.
Makedirs(p) ==
    /\ pc[p] = "makedirs"
    /\ IF dirExists
       THEN /\ Return(p, <<"Exception", "FileExistsError">>)
            /\ UNCHANGED dirExists
       ELSE \/ /\ dirExists' = TRUE
               /\ pc' = [pc EXCEPT ![p] = "stamp"]
               /\ UNCHANGED <<plate_text, confidence, last_entry, now, outcome>>
            \/ /\ Return(p, <<"Exception", "OSError">>)
               /\ UNCHANGED dirExists
    /\ UNCHANGED <<history, raw_text, clock, rows, files>>

\* Lines 87-90: now = datetime.datetime.now()
Stamp(p) ==
    /\ pc[p] = "stamp"
    /\ now' = [now EXCEPT ![p] = clock]
    /\ pc' = [pc EXCEPT ![p] = "imwrite"]
    /\ UNCHANGED <<history, raw_text, clock, rows, files, dirExists, plate_text, confidence,
                   last_entry, outcome>>

\* Line 92: cv2.imwrite returns True, the file is on disk.
Imwrite(p) ==
    /\ pc[p] = "imwrite"
    /\ dirExists
    /\ files' = files \cup {ImgFilename(now[p])}
    /\ pc' = [pc EXCEPT ![p] = "insert"]
    /\ UNCHANGED <<history, raw_text, clock, rows, dirExists, plate_text, confidence, last_entry,
                   now, outcome>>

\* A failed image write whose "return" is missing: the call goes on.
ImwriteFailNoReturn(p) ==
    /\ pc[p] = "imwrite"
    /\ pc' = [pc EXCEPT ![p] = "insert"]
    /\ UNCHANGED <<history, raw_text, clock, rows, files, dirExists, plate_text, confidence,
                   last_entry, now, outcome>>

\* Lines 92-95: cv2.imwrite returns False.
ImwriteFail(p) ==
    /\ pc[p] = "imwrite"
    /\ Return(p, <<"ImageError">>)
    /\ UNCHANGED <<history, raw_text, clock, rows, files, dirExists>>

\* Lines 97-105: the row is inserted and committed.
Insert(p) ==
    /\ pc[p] = "insert"
    /\ rows' = InsertRow(rows, Strftime(now[p]), plate_text[p],
                         Round4(confidence[p]), ImgFilename(now[p]))
    /\ Return(p, <<"Logged">>)
    /\ UNCHANGED <<history, raw_text, clock, files, dirExists>>

\* A failed insert whose handler removes the image it wrote.
InsertErrorCleanup(p) ==
    /\ pc[p] = "insert"
    /\ files' = files \ {ImgFilename(now[p])}
    /\ Return(p, <<"InsertError">>)
    /\ UNCHANGED <<history, raw_text, clock, rows, dirExists>>

\* A failed insert that leaves its row behind although it reports the error.
InsertErrorCommitted(p) ==
    /\ pc[p] = "insert"
    /\ rows' = InsertRow(rows, Strftime(now[p]), plate_text[p],
                         Round4(confidence[p]), ImgFilename(now[p]))
    /\ Return(p, <<"InsertError">>)
    /\ UNCHANGED <<history, raw_text, clock, files, dirExists>>

\* Lines 97-107: sqlite3.Error during the insert, caught and printed.
InsertError(p) ==
    /\ pc[p] = "insert"
    /\ Return(p, <<"InsertError">>)
    /\ UNCHANGED <<history, raw_text, clock, rows, files, dirExists>>

Step(p) ==
    \/ Lookup(p)
    \/ LookupError(p)
    \/ Check(p)
    \/ Exists(p)
    \/ Makedirs(p)
    \/ Stamp(p)
    \/ Imwrite(p)
    \/ ImwriteFail(p)
    \/ Insert(p)
    \/ InsertError(p)

\* Any number of producers call concurrently.
Next ==
    \/ Tick
    \/ \E p \in Procs, text \in Texts, conf \in Confs : Call(p, text, conf)
    \/ \E p \in Procs : Step(p)

Spec == Init /\ [][Next]_vars

\* Calls never overlap (a single producer thread).
CallAlone(p, text, conf) ==
    /\ InFlight = {}
    /\ Call(p, text, conf)

NextSeq ==
    \/ Tick
    \/ \E p \in Procs, text \in Texts, conf \in Confs : CallAlone(p, text, conf)
    \/ \E p \in Procs : Step(p)

SeqSpec == Init /\ [][NextSeq]_vars

\* A history query that also makes sure the image directory exists.
GetPlateHistoryMakesDir(txt) ==
    /\ history = NoResult
    /\ \E res \in SelectHistory(rows, Normalize(txt)) :
           history' = <<"Result", txt, res>>
    /\ dirExists' = TRUE
    /\ UNCHANGED <<raw_text, clock, rows, files, pc, plate_text,
                   confidence, last_entry, now, outcome>>

\* get_plate_history(plate_text), lines 115-119: one read of the store; the
\* call and the list it returns.
GetPlateHistory(txt) ==
    /\ history = NoResult
    /\ \E res \in SelectHistory(rows, Normalize(txt)) :
           history' = <<"Result", txt, res>>
    /\ UNCHANGED <<raw_text, clock, rows, files, dirExists, pc, plate_text,
                   confidence, last_entry, now, outcome>>

\* The list is handed to the caller of get_plate_history.
HistoryReturn ==
    /\ history # NoResult
    /\ history' = NoResult
    /\ UNCHANGED <<raw_text, clock, rows, files, dirExists, pc, plate_text,
                   confidence, last_entry, now, outcome>>

\* Stores left by earlier runs: up to MaxTable rows in insertion order, each
\* written by log_detection at some clock reading up to MaxStamp.
StoredKeys == {<<"A">>, <<"B">>}
StoredConfs == {12346, 90004}
StoredRows ==
    [timestamp : {Strftime(t) : t \in 0..MaxStamp}, plate_text : StoredKeys,
     confidence : {Round4(c) : c \in StoredConfs}]
StoredTables ==
    UNION {{[i \in 1..n |->
               [id |-> i, timestamp |-> f[i].timestamp, plate_text |-> f[i].plate_text,
                confidence |-> f[i].confidence,
                image_path |-> ImgFilename(Strptime(f[i].timestamp))]] :
            f \in [1..n -> StoredRows]} : n \in 0..MaxTable}

\* ALPRDatabase constructed on a store that earlier runs have filled
\* (CREATE TABLE IF NOT EXISTS keeps its rows).
InitStore ==
    /\ rows \in StoredTables
    /\ files = {rows[i].image_path : i \in 1..Len(rows)}
    /\ dirExists = (rows # <<>>)
    /\ clock = MaxStamp
    /\ pc = [p \in Procs |-> "idle"]
    /\ plate_text = [p \in Procs |-> <<>>]
    /\ confidence = [p \in Procs |-> 0]
    /\ last_entry = [p \in Procs |-> None]
    /\ now = [p \in Procs |-> 0]
    /\ outcome = [p \in Procs |-> <<"NotCalled">>]
    /\ history = NoResult
    /\ raw_text = [p \in Procs |-> <<>>]

NextHistory ==
    \/ \E txt \in Texts : GetPlateHistory(txt)
    \/ HistoryReturn

\* History queries on a stored table.
HistorySpec == InitStore /\ [][NextHistory]_vars

\* Schema set-up that drops the table before creating it.
InitializeDbRecreate(table) == <<>>

\* _initialize_db on an existing store, lines 27-53: CREATE TABLE IF NOT
\* EXISTS and CREATE INDEX IF NOT EXISTS keep the table as it is.
InitializeDb(table) == table

\* ALPRDatabase(db_path) is constructed on the store in use, lines 12-20.
Construct ==
    /\ rows' = InitializeDb(rows)
    /\ UNCHANGED <<history, raw_text, clock, files, dirExists, pc, plate_text,
                   confidence, last_entry, now, outcome>>

\* The texts the reader asks for while producers run.
QueryTexts == {<<" ", "a">>, <<"b">>}

\* Producers and a reader of the history side by side.  The reader's call is
\* one read of the store followed by its return; the return touches nothing
\* shared, so it is taken at once.
NextLedger ==
    \/ history = NoResult /\ Tick
    \/ \E p \in Procs, txt \in Texts, conf \in Confs :
           history = NoResult /\ Call(p, txt, conf)
    \/ \E p \in Procs : history = NoResult /\ Step(p)
    \/ \E txt \in QueryTexts : GetPlateHistory(txt)
    \/ HistoryReturn
    \/ history = NoResult /\ Construct

LedgerSpec == Init /\ [][NextLedger]_vars

\* Raw texts as OCR may deliver them: mixed case, blanks anywhere, or nothing.
Chars == {"a", "A", " ", "-"}
RawTexts == UNION {[1..n -> Chars] : n \in 0..MaxLen}

\* Two producers, each holding a raw text it is about to log.
InitRaw ==
    /\ Init!1 /\ Init!2 /\ Init!3 /\ Init!4 /\ Init!5 /\ Init!6
    /\ Init!7 /\ Init!8 /\ Init!9 /\ Init!10 /\ Init!11
    /\ raw_text \in [Procs -> RawTexts]

\* Each producer calls log_detection with its raw text; line 59 normalizes it.
NextRaw ==
    \E p \in Procs, conf \in Confs : Call(p, raw_text[p], conf)

NormalizeSpec == InitRaw /\ [][NextRaw]_vars

\* A producer has entered log_detection on a store that earlier runs have
\* filled, in any insertion order of the timestamps; the clock is late
\* enough for the oldest stored timestamps to be out of the window.
InitEntered ==
    /\ rows \in StoredTables
    /\ files = {rows[i].image_path : i \in 1..Len(rows)}
    /\ dirExists = (rows # <<>>)
    /\ clock = MaxClock - 1
    /\ \E p \in Procs, key \in StoredKeys, conf \in Confs :
          /\ pc = [q \in Procs |-> IF q = p THEN "lookup" ELSE "idle"]
          /\ plate_text = [q \in Procs |-> IF q = p THEN key ELSE <<>>]
          /\ confidence = [q \in Procs |-> IF q = p THEN conf ELSE 0]
          /\ outcome = [q \in Procs |-> IF q = p THEN <<"Running">> ELSE <<"NotCalled">>]
    /\ last_entry = [p \in Procs |-> None]
    /\ now = [p \in Procs |-> 0]
    /\ history = NoResult
    /\ raw_text = [p \in Procs |-> <<>>]

\* Calls on the stored table never overlap.
StoredSpec == InitEntered /\ [][NextSeq]_vars

TypeOK ==
    /\ clock \in 0..MaxClock
    /\ Len(rows) <= MaxRows
    /\ dirExists \in BOOLEAN
    /\ \A p \in Procs : pc[p] \in {"idle", "lookup", "check", "exists", "makedirs",
                                   "stamp", "imwrite", "insert"}

\* ------------------------------------------------------------ vocabulary
WindowTicks == Window * TicksPerSec

\* The outcome of the interface, read off what the call printed or raised.
OutcomeOf(out) ==
    IF out[1] \in {"ImageError", "InsertError"} THEN "StorageFailure" ELSE out[1]

Outcomes == {"Logged", "Skipped", "StorageFailure", "InvalidInput"}

HasRow(key) == \E i \in 1..Len(rows) : rows[i].plate_text = key

\* Time of the latest row of the key (the row with the greatest id).
LastSeen(key) ==
    LET ids == {i \in 1..Len(rows) : rows[i].plate_text = key}
        m == CHOOSE i \in ids : \A j \in ids : j <= i
    IN Strptime(rows[m].timestamp)

RowsOf(key) == SelectSeq(rows, LAMBDA r : r.plate_text = key)

Admitted(p) == pc[p] = "check" /\ pc'[p] = "exists"
Suppressed(p) == pc[p] = "check" /\ pc'[p] = "idle"
Returns(p) == pc[p] # "idle" /\ pc'[p] = "idle"

\* C1: every row names an image file that is on disk, the file was on disk
\* before the row was inserted, and a call whose image write fails returns
\* without a row being inserted.
NoDanglingRows ==
    [][/\ \A i \in 1..Len(rows') : rows'[i].image_path \in files'
       /\ \A i \in (Len(rows) + 1)..Len(rows') : rows'[i].image_path \in files
       /\ \A p \in Procs : (pc[p] = "imwrite" /\ pc'[p] = "idle") => rows' = rows
       /\ \A p \in Procs : (pc[p] = "imwrite" /\ pc'[p] = "insert") =>
                               ImgFilename(now[p]) \in files']_vars

NoDanglingRowsWitness ==
    /\ rows # <<>>
    /\ \E p \in Procs : outcome[p] = <<"ImageError">>

\* C2: when calls do not overlap, a call for key K is admitted exactly when K
\* has no row or the clock is at least 5 s past the time of K's latest row,
\* and suppressed exactly when it is less than 5 s past it.
WindowDecisionRule ==
    [][\A p \in Procs :
         LET K == plate_text[p]
         IN (pc[p] = "check" /\ pc'[p] # "check") =>
              /\ Admitted(p) <=> (~HasRow(K) \/ clock - LastSeen(K) >= WindowTicks)
              /\ (Suppressed(p) /\ outcome'[p][1] = "Skipped") <=>
                     (HasRow(K) /\ clock - LastSeen(K) < WindowTicks)]_vars

\* A call admitted exactly 5 s after the key's latest row.
WindowDecisionRuleWitness ==
    \E p \in Procs :
        /\ pc[p] = "exists"
        /\ HasRow(plate_text[p])
        /\ clock - LastSeen(plate_text[p]) = WindowTicks

\* C3: when calls do not overlap, two distinct rows of the same key have
\* timestamps at least 5 s apart.
OncePerWindow ==
    \A i, j \in 1..Len(rows) :
        (i < j /\ rows[i].plate_text = rows[j].plate_text) =>
            Strptime(rows[j].timestamp) - Strptime(rows[i].timestamp) >= WindowTicks

OncePerWindowWitness ==
    \E i, j \in 1..Len(rows) : i < j /\ rows[i].plate_text = rows[j].plate_text

\* C4: nothing ties the window check to the store as it is when the check
\* runs: a call leaves the check admitted exactly when the row its own lookup
\* found is absent or at least 5 s old, whatever has been inserted since, so
\* two overlapping calls for one key that both looked up before either
\* inserted are both admitted.
CheckThenActRace ==
    [][\A p \in Procs :
         (pc[p] = "check" /\ pc'[p] # "check") =>
             (Admitted(p) <=>
                 (last_entry[p] = None
                    \/ clock - Strptime(last_entry[p][1]) >= WindowTicks))]_vars

\* Two rows of one key less than 5 s apart.
CheckThenActRaceWitness ==
    \E i, j \in 1..Len(rows) :
        /\ i < j
        /\ rows[i].plate_text = rows[j].plate_text
        /\ Strptime(rows[j].timestamp) - Strptime(rows[i].timestamp) < WindowTicks
        /\ Strptime(rows[i].timestamp) - Strptime(rows[j].timestamp) < WindowTicks

\* C5: the steps of a suppressed call (entry, lookup, the check that
\* suppresses) leave the rows, the image files and the image directory as
\* they were.
SuppressedNoSideEffects ==
    [][\A p \in Procs :
         (\/ pc[p] = "idle" /\ pc'[p] = "lookup"
          \/ pc[p] = "lookup" /\ pc'[p] = "check"
          \/ Suppressed(p) /\ outcome'[p][1] = "Skipped")
         => UNCHANGED <<rows, files, dirExists>>]_vars

SuppressedNoSideEffectsWitness ==
    \E p \in Procs : pc[p] = "idle" /\ outcome[p][1] = "Skipped"

\* C6: a call whose normalized key is empty goes no further than the
\* normalization, and no row has an empty plate_text.
EmptyKeyRejected ==
    /\ \A p \in Procs : pc[p] # "idle" => plate_text[p] # <<>>
    /\ \A i \in 1..Len(rows) : rows[i].plate_text # <<>>

\* C7: no call ends in an exception; a call in which a step failed ends
\* with StorageFailure.
NoUncaughtFailure ==
    \A p \in Procs : outcome[p][1] # "Exception"

\* C8: when the insert fails after the image was written, the call ends with
\* StorageFailure, the rows are unchanged and the image file is still on disk.
InsertFailureOrphansImage ==
    [][\A p \in Procs :
         (pc[p] = "insert" /\ pc'[p] = "idle" /\ outcome'[p] # <<"Logged">>) =>
             /\ OutcomeOf(outcome'[p]) = "StorageFailure"
             /\ rows' = rows
             /\ ImgFilename(now[p]) \in files
             /\ files' = files]_vars

\* A failed insert has left an image file that no row names.
InsertFailureOrphansImageWitness ==
    /\ \E p \in Procs : outcome[p] = <<"InsertError">>
    /\ \E f \in files : \A i \in 1..Len(rows) : rows[i].image_path # f

\* C9: every call returns one of Logged, Skipped, StorageFailure and
\* InvalidInput: Logged exactly when it inserted a row, Skipped (with the
\* elapsed time) exactly when the window check suppressed it, StorageFailure
\* exactly when its image write or its insert failed.
OutcomeIdentifiesCall ==
    [][\A p \in Procs :
         Returns(p) =>
             /\ OutcomeOf(outcome'[p]) \in Outcomes
             /\ OutcomeOf(outcome'[p]) = "Logged" <=> rows' # rows
             /\ OutcomeOf(outcome'[p]) = "Skipped" <=> pc[p] = "check"
             /\ OutcomeOf(outcome'[p]) = "Skipped" =>
                    outcome'[p][2] = clock - Strptime(last_entry[p][1])
             /\ OutcomeOf(outcome'[p]) = "StorageFailure" <=>
                    (pc[p] \in {"imwrite", "insert"} /\ rows' = rows)]_vars

HistoryNewestFirst ==
    history # NoResult =>
        LET key == Normalize(history[2])
            res == history[3]
            pairs == {<<rows[i].timestamp, rows[i].confidence>> : i \in 1..Len(rows)}
                        \cup {res[k] : k \in 1..Len(res)}
        IN /\ \A pr \in pairs :
                 Cardinality({k \in 1..Len(res) : res[k] = pr}) =
                 Cardinality({i \in 1..Len(rows) :
                                 /\ rows[i].plate_text = key
                                 /\ <<rows[i].timestamp, rows[i].confidence>> = pr})
           /\ \A k, l \in 1..Len(res) :
                 k < l => Strptime(res[k][1]) >= Strptime(res[l][1])
           /\ ~HasRow(key) => res = <<>>

\* Three events of one key, inserted oldest first, returned as t3, t2, t1.
HistoryNewestFirstWitness ==
    /\ history # NoResult
    /\ Len(history[3]) = 3
    /\ Strptime(history[3][1][1]) > Strptime(history[3][2][1])
    /\ Strptime(history[3][2][1]) > Strptime(history[3][3][1])
    /\ Strptime(rows[1].timestamp) < Strptime(rows[2].timestamp)
    /\ Strptime(rows[2].timestamp) < Strptime(rows[3].timestamp)
    /\ history[2] # Normalize(history[2])

\* C12: a history query changes no row, no image file, not the image
\* directory and nothing of a log_detection call in flight, and the list it
\* returns is made of whole rows of the store as committed at the moment of
\* the read: all rows of the key, each complete.
HistoryReadOnly ==
    [][(history = NoResult /\ history' # NoResult) =>
         LET key == Normalize(history'[2])
             res == history'[3]
         IN /\ UNCHANGED <<clock, rows, files, dirExists, pc, plate_text,
                           confidence, last_entry, now, outcome>>
            /\ Len(res) = Len(RowsOf(key))
            /\ \A k \in 1..Len(res) :
                 \E i \in 1..Len(rows) :
                    /\ rows[i].plate_text = key
                    /\ res[k] = <<rows[i].timestamp, rows[i].confidence>>]_vars

\* The history of a key is read while a call for that key is about to
\* insert its row.
HistoryReadOnlyWitness ==
    /\ history # NoResult
    /\ Len(history[3]) = 1
    /\ \E p \in Procs : pc[p] = "insert" /\ plate_text[p] = Normalize(history[2])

\* C13: no two rows name the same image file, and no image write lands on a
\* file that is already there.
ImageFileNeverReused ==
    [][/\ \A i, j \in 1..Len(rows') :
            i # j => rows'[i].image_path # rows'[j].image_path
       /\ \A p \in Procs :
            (pc[p] = "imwrite" /\ pc'[p] = "insert") =>
                ImgFilename(now[p]) \notin files]_vars

\* C14: no step of the core changes or removes a row that is in the store,
\* and a row is added only as the next id by a log_detection call that has
\* passed the window check and written its image.
AppendOnly ==
    [][/\ Len(rows') >= Len(rows)
       /\ \A i \in 1..Len(rows) : rows'[i] = rows[i]
       /\ rows' # rows =>
            \E p \in Procs :
               /\ pc[p] = "insert" /\ pc'[p] = "idle"
               /\ Len(rows') = Len(rows) + 1
               /\ rows'[Len(rows')].id = Len(rows) + 1
               /\ rows'[Len(rows')].plate_text = plate_text[p]
               /\ rows'[Len(rows')].image_path \in files]_vars

\* Two events are in the store and a history query has just read it.
AppendOnlyWitness ==
    /\ Len(rows) = 2
    /\ history # NoResult
    /\ Len(history[3]) >= 1

FoldChar(c) == IF c = "A" THEN "a" ELSE IF c = "B" THEN "b" ELSE c

\* The positions of a text from its first to its last non-blank character.
Inner(s) ==
    LET solid == {i \in 1..Len(s) : s[i] \notin Space}
    IN IF solid = {} THEN {}
       ELSE {i \in 1..Len(s) : (\E j \in solid : j <= i) /\ (\E j \in solid : i <= j)}

Least(S) == CHOOSE i \in S : \A j \in S : i <= j

\* Two texts that differ in letter case and in blanks at the ends only.
SameButCaseAndEnds(x, y) ==
    /\ Cardinality(Inner(x)) = Cardinality(Inner(y))
    /\ Inner(x) # {} =>
         \A k \in 0..(Cardinality(Inner(x)) - 1) :
            FoldChar(x[Least(Inner(x)) + k]) = FoldChar(y[Least(Inner(y)) + k])

\* C15: the key made by line 59 is a fixed point of the normalization, and
\* raw texts that differ only in letter case or in blanks at the ends get the
\* same key.
NormalizeIdempotent ==
    /\ \A p \in Procs :
          pc[p] = "lookup" => Normalize(plate_text[p]) = plate_text[p]
    /\ \A p, q \in Procs :
          (pc[p] = "lookup" /\ pc[q] = "lookup"
             /\ SameButCaseAndEnds(raw_text[p], raw_text[q]))
          => plate_text[p] = plate_text[q]

\* " a-" and "A- " have both become "A-".
NormalizeIdempotentWitness ==
    \E p, q \in Procs :
        /\ pc[p] = "lookup" /\ pc[q] = "lookup"
        /\ raw_text[p] # raw_text[q]
        /\ raw_text[p] # plate_text[p] /\ raw_text[q] # plate_text[q]
        /\ SameButCaseAndEnds(raw_text[p], raw_text[q])
        /\ Len(plate_text[p]) = 2
        /\ plate_text[p] = plate_text[q]

\* C16: the lookup returns the timestamp of the key's row with the greatest
\* id, whatever the timestamps of the key's other rows, and a call that
\* overlaps no other is admitted exactly when that timestamp is at least 5 s old.
LatestInsertedDecides ==
    [][\A p \in Procs :
         LET K == plate_text[p]
             ids == {i \in 1..Len(rows) : rows[i].plate_text = K}
         IN /\ (pc[p] = "lookup" /\ pc'[p] = "check") =>
                  IF ids = {} THEN last_entry'[p] = None
                  ELSE \E i \in ids :
                          /\ \A j \in ids : rows[j].id <= rows[i].id
                          /\ last_entry'[p] = <<rows[i].timestamp>>
            /\ (pc[p] = "check" /\ pc'[p] # "check") =>
                  (Admitted(p) <=>
                      \/ ids = {}
                      \/ \E i \in ids :
                            /\ \A j \in ids : rows[j].id <= rows[i].id
                            /\ clock - Strptime(rows[i].timestamp) >= WindowTicks)]_vars

\* A call is admitted on its key's latest inserted row although an earlier
\* inserted row of the key has a timestamp inside the window.
LatestInsertedDecidesWitness ==
    \E p \in Procs :
        /\ pc[p] = "exists"
        /\ \E i, j \in 1..Len(rows) :
              /\ i < j
              /\ rows[i].plate_text = plate_text[p]
              /\ rows[j].plate_text = plate_text[p]
              /\ \A k \in 1..Len(rows) : rows[k].plate_text = plate_text[p] => k <= j
              /\ clock - Strptime(rows[i].timestamp) < WindowTicks
              /\ clock - Strptime(rows[j].timestamp) >= WindowTicks

\* C17: no call fails because another call created the image directory
\* between its existence check and its create.
MakedirsIdempotent ==
    \A p \in Procs : outcome[p] # <<"Exception", "FileExistsError">>

\* C18: when calls do not overlap, a suppressed call leaves the last
\* sighting of every key where it was and reports the time since the key's
\* latest row, and a call made 5 s or more after the key's latest row is
\* admitted.
WindowAnchoredAtAdmission ==
    [][\A p \in Procs :
         LET K == plate_text[p]
         IN /\ Suppressed(p) =>
                 /\ \A key \in {rows[i].plate_text : i \in 1..Len(rows)} :
                       SelectLast(rows', key) = SelectLast(rows, key)
                 /\ outcome'[p] = <<"Skipped", clock - LastSeen(K)>>
            /\ (pc[p] = "check" /\ pc'[p] # "check"
                  /\ HasRow(K) /\ clock - LastSeen(K) >= WindowTicks) => Admitted(p)]_vars

\* The key of the only row is admitted again 5 s after that row, after a
\* call for it was suppressed inside the window.
WindowAnchoredAtAdmissionWitness ==
    \E p, q \in Procs :
        /\ p # q
        /\ Len(rows) = 1
        /\ pc[p] = "exists"
        /\ plate_text[p] = rows[1].plate_text
        /\ clock - Strptime(rows[1].timestamp) = WindowTicks
        /\ outcome[q][1] = "Skipped"
        /\ outcome[q][2] > 0

\* C19: a call that ends in an image-write failure or an insert failure
\* leaves the last sighting of its key, and of every other key, as the call
\* found it, and the next call for a key that still has no row is admitted.
FailureLeavesWindow ==
    [][\A p \in Procs :
         /\ (Returns(p) /\ OutcomeOf(outcome'[p]) = "StorageFailure") =>
               \A key \in {plate_text[p]} \cup {rows'[i].plate_text : i \in 1..Len(rows')} :
                  SelectLast(rows', key) = SelectLast(rows, key)
         /\ (pc[p] = "check" /\ pc'[p] # "check" /\ ~HasRow(plate_text[p])) =>
               Admitted(p)]_vars

\* After a call whose insert failed, with the store still empty, the next
\* call is admitted.
FailureLeavesWindowWitness ==
    \E p, q \in Procs :
        /\ p # q
        /\ rows = <<>>
        /\ files # {}
        /\ outcome[q] = <<"InsertError">>
        /\ pc[p] = "exists"
====
